---- MODULE Spec2Model ----
(***************************************************************************)
(* Two-step delete confirmation of dataverse-mcp (src/src/confirmations.py) *)
(* over a shared Redis store.                                               *)
(*                                                                          *)
(* Redis is modelled by two maps over the proposal keys: `store` (the hash  *)
(* under each key, NoKey when the key does not exist) and `expireAt` (the   *)
(* key's expiry, NoExpiry when it has none).  Every Redis round trip of the *)
(* code is one atomic step; the steps of concurrent validate_and_consume    *)
(* calls interleave freely with each other, with create_proposal, with the  *)
(* clock and with key expiry.                                               *)
(***************************************************************************)
EXTENDS Integers, FiniteSets, Sequences, TLC

\* ------------------------------------------------------------------ bounds
NumCallers == 2      \* concurrent request handlers (threads / replicas)
NumProposals == 1    \* proposals created in one behaviour
MaxTime == 2         \* the clock runs 0..MaxTime
ModelTTL == 1        \* settings.confirm_token_ttl_seconds, in clock ticks
CountCap == 2        \* the history counters saturate here

Callers == 1..NumCallers
PIDs == 1..NumProposals
\* secrets.token_urlsafe(32): the n-th value drawn, a string that is neither
\* a uuid nor a hex digest
token_urlsafe(n) == <<"token_urlsafe", n>>
Tokens == {token_urlsafe(n) : n \in 0..NumProposals}   \* draw 0 is never issued
\* identifiers are sequences of one-character strings
Rep(ch, n) == [i \in 1..n |-> ch]
GUID(ch) ==
    Rep(ch, 8) \o <<"-">> \o Rep(ch, 4) \o <<"-">> \o Rep(ch, 4) \o <<"-">>
        \o Rep(ch, 4) \o <<"-">> \o Rep(ch, 12)
contacts == <<"c", "o", "n", "t", "a", "c", "t", "s">>
accounts == <<"a", "c", "c", "o", "u", "n", "t", "s">>
Targets == {<<contacts, GUID("a")>>, <<accounts, GUID("b")>>}

Users == {"alice", "bob", "carol"}   \* user object ids (get_user_oid)

\* ------------------------------------------------------------- constants
CONFIRM_PHRASE == "CONFIRM DELETE"
WRONG_PHRASE == "WRONG PHRASE"
Phrases == {CONFIRM_PHRASE, WRONG_PHRASE}
_REDIS_PREFIX == "mcp:proposal:"

NoKey == [f \in {} |-> ""]   \* HGETALL of a key that does not exist
NoExpiry == -1               \* a key without a TTL
None == [none |-> TRUE]      \* Python's None
NoAge == -1                  \* the local `age` before it is assigned

VARIABLES
    now,        \* time.time()
    ttl,        \* settings.confirm_token_ttl_seconds
    store,      \* Redis: key -> hash
    expireAt,   \* Redis: key -> expiry time
    created,    \* number of create_proposal calls so far
    pc,         \* per caller: position inside validate_and_consume
    arg,        \* per caller: (proposal_id, confirm_token, confirm_phrase)
    proposal,   \* per caller: the local `proposal` read at the lookup
    age,        \* per caller: the local `age` of the expiry check
    result,     \* per caller: outcome of the finished call
    \* history (not read by any action guard other than to update themselves)
    issued,     \* pid -> what create_proposal was given and returned
    newly,      \* pid -> consumption steps that reported 'newly consumed'
    guesses,    \* pid -> calls that reached the phrase/token comparison
    successes,  \* pid -> calls that returned a Proposal
    firstOutcome, \* pid -> outcome of the call that consumed first
    inTime,     \* per caller: every step so far ran within the TTL window
    first,      \* per caller: its consumption step was the first on the pid
    logs,       \* records written at level INFO by the loggers "confirmations",
                \* "cache" and "dataverse.audit"
    \* the record tools, the WhoAmI cache and the audit decorator
    toolCalls,  \* finished record tool calls, in order: reply and invocations
    _mem,       \* cache._mem
    _dirty,     \* cache._dirty
    whoamiOut,  \* the last cache call: its number, arguments and result
    whoamiSet,  \* user -> the data last given to set_whoami for that user
    SCHEMA_CACHE_TTL_SECONDS, \* cache.SCHEMA_CACHE_TTL_SECONDS
    wrapper,    \* audited_tool: the invocation in flight
    audit_records, \* tool_call records emitted by audited_tool wrappers
    delivered,  \* what finished wrapper invocations gave their callers
    listing     \* dataverse.list_records: the locals of the call and its requests

toolVars == <<toolCalls>>
cacheVars == <<_mem, _dirty, whoamiOut, whoamiSet, SCHEMA_CACHE_TTL_SECONDS>>
auditVars == <<wrapper, audit_records, delivered>>
listVars == <<listing>>
extVars == <<toolVars, cacheVars, auditVars, listVars>>
vars == <<now, ttl, store, expireAt, created, pc, arg, proposal, age, result,
          issued, newly, guesses, successes, firstOutcome, inTime, first, logs,
          extVars>>

\* ---------------------------------------------------------------- helpers
\* str(x) / float(s), "1" if b else "0" / s == "1": strings are tagged values
str(x) == <<"str", x>>
float(s) == s[2]
\* faulty variant: the token is stored as it is
_hash_token_plain(token) == token

_hash_token(token) == <<"sha256", token>>
_key(proposal_id) == <<_REDIS_PREFIX, proposal_id>>
Keys == {_key(p) : p \in PIDs}

Proposal(proposal_id, table, record_id, token_hash, confirm_phrase, created_at, used) ==
    [proposal_id |-> proposal_id, table |-> table, record_id |-> record_id,
     token_hash |-> token_hash, confirm_phrase |-> confirm_phrase,
     created_at |-> created_at, used |-> used]

\* asdict(proposal) with used and created_at turned into strings
_put_data(p) ==
    [proposal_id |-> p.proposal_id, table |-> p.table, record_id |-> p.record_id,
     token_hash |-> p.token_hash, confirm_phrase |-> p.confirm_phrase,
     created_at |-> str(p.created_at),
     used |-> IF p.used THEN "1" ELSE "0"]

ProposalFields ==
    {"proposal_id", "table", "record_id", "token_hash", "confirm_phrase",
     "created_at", "used"}

\* faulty variant: _get without its `if not data` test
_get_raises_unchecked(data) == ~(ProposalFields \subseteq DOMAIN data)

\* _get: None for an empty hash, KeyError when a field is missing
_get_raises(data) == data # NoKey /\ ~(ProposalFields \subseteq DOMAIN data)
_get(data) ==
    IF data = NoKey THEN None
    ELSE Proposal(data.proposal_id, data.table, data.record_id, data.token_hash,
                  data.confirm_phrase, float(data.created_at), data.used = "1")

\* faulty variant: the write replaces the whole hash by the one field
HSET_replace(data, field, value) == [f \in {field} |-> value]

\* HSET key field value on a hash (creates the hash when the key is missing)
HSET(data, field, value) ==
    [f \in DOMAIN data \cup {field} |-> IF f = field THEN value ELSE data[f]]

\* faulty variant: the script sets the flag without testing it first
_CAS_SCRIPT_unconditional(data) == [ret |-> 0, data |-> HSET(data, "used", "1")]

\* faulty variant: the script clears the flag of a proposal it finds used
_CAS_SCRIPT_toggle(data) ==
    IF "used" \in DOMAIN data /\ data["used"] = "1"
    THEN [ret |-> 1, data |-> HSET(data, "used", "0")]
    ELSE [ret |-> 0, data |-> HSET(data, "used", "1")]

\* _CAS_SCRIPT: [ret, data'] for the hash under KEYS[1]
_CAS_SCRIPT(data) ==
    IF "used" \in DOMAIN data /\ data["used"] = "1"
    THEN [ret |-> 1, data |-> data]
    ELSE [ret |-> 0, data |-> HSET(data, "used", "1")]

\* faulty variant: the expiry test off by one
IsExpired_inclusive(elapsed, t) == elapsed >= t

\* the expiry test of validate_and_consume
IsExpired(elapsed, t) == elapsed > t

Inc(n) == IF n < CountCap THEN n + 1 ELSE n

NotIssued ==
    [token |-> token_urlsafe(0), confirm_phrase |-> "", table |-> <<>>, record_id |-> <<>>,
     created_at |-> -1]
WasCreated(p) == p <= created
\* the store's clock has not passed the key's expiry
WithinWindow(p) == WasCreated(p) /\ now <= issued[p].created_at + ttl

\* dataverse.list_records before it is called
NotListing ==
    [pc |-> "idle", fetch_all_pages |-> FALSE, path |-> <<>>, pages |-> 0,
     all_records |-> <<>>, requests |-> 0, fetched |-> <<>>]

\* cache._mem["schema"] with no table in it
NoSchema == [t \in {} |-> None]
SCHEMA_CACHE_TTL_DEFAULT == 3600   \* 1 hour; set to 0 to disable

\* the record tools, the cache and the audit decorator before any call
InitExt ==
    /\ toolCalls = <<>>
    /\ _mem = [whoami |-> None, schema |-> NoSchema, tables |-> None]
    /\ _dirty = FALSE
    /\ SCHEMA_CACHE_TTL_SECONDS = SCHEMA_CACHE_TTL_DEFAULT
    /\ whoamiOut = [n |-> 0, op |-> "none", args |-> <<>>, ret |-> None]
    /\ whoamiSet = [u \in Users |-> None]
    /\ wrapper = None
    /\ audit_records = <<>>
    /\ delivered = <<>>
    /\ listing = NotListing

\* -------------------------------------------------------------------- Init
Init ==
    /\ now = 0
    /\ ttl = ModelTTL
    /\ store = [k \in Keys |-> NoKey]
    /\ expireAt = [k \in Keys |-> NoExpiry]
    /\ created = 0
    /\ pc = [c \in Callers |-> "idle"]
    /\ arg = [c \in Callers |-> None]
    /\ proposal = [c \in Callers |-> None]
    /\ result = [c \in Callers |-> "none"]
    /\ issued = [p \in PIDs |-> NotIssued]
    /\ newly = [p \in PIDs |-> 0]
    /\ guesses = [p \in PIDs |-> 0]
    /\ successes = [p \in PIDs |-> 0]
    /\ firstOutcome = [p \in PIDs |-> "none"]
    /\ inTime = [c \in Callers |-> FALSE]
    /\ first = [c \in Callers |-> FALSE]
    /\ age = [c \in Callers |-> NoAge]
    /\ logs = {}
    /\ InitExt

callVars == <<pc, arg, proposal, age, result, inTime, first>>
histVars == <<issued, newly, guesses, successes, firstOutcome>>
\* left alone by every step of the store and of validate_and_consume but the
\* ones that log
restVars == <<logs, extVars>>
\* the proposal store, its clock and the confirm calls
storeVars == <<now, ttl, store, expireAt, created, callVars, histVars>>
confVars == <<now, ttl, store, expireAt, created, callVars, histVars, logs>>

\* ----------------------------------------------------------------- actions
\* the clock advances
Tick ==
    /\ now < MaxTime
    /\ now' = now + 1
    /\ UNCHANGED <<restVars, ttl, store, expireAt, created, callVars, histVars>>

\* Redis removes a key whose TTL has run out (the removal may lag)
Evict(k) ==
    /\ store[k] # NoKey
    /\ expireAt[k] # NoExpiry
    /\ now > expireAt[k]
    /\ store' = [store EXCEPT ![k] = NoKey]
    /\ expireAt' = [expireAt EXCEPT ![k] = NoExpiry]
    /\ UNCHANGED <<restVars, now, ttl, created, callVars, histVars>>

\* faulty variant: the log line carries the token
create_proposal_info_token(proposal_id, confirm_token, table, record_id) ==
    <<"Delete proposal created: id=%s table=%s record=%s token=%s",
      proposal_id, table, record_id, confirm_token>>

\* the logger.info call of create_proposal, given the function's locals
create_proposal_info(proposal_id, confirm_token, table, record_id) ==
    <<"Delete proposal created: id=%s table=%s record=%s",
      proposal_id, table, record_id>>

\* faulty variant: id and token are derived from the table, so that a second
\* proposal for a record takes the place of the first
create_proposal_keyed(table, record_id) ==
    /\ _key(created + 1) \in DOMAIN store
    /\ LET proposal_id == IF table = contacts THEN 1 ELSE 2
           confirm_token == token_urlsafe(proposal_id)
           p == Proposal(proposal_id, table, record_id, _hash_token(confirm_token),
                         CONFIRM_PHRASE, now, FALSE)
           k == _key(proposal_id)
       IN /\ store' = [store EXCEPT ![k] = IF ttl > 0 THEN _put_data(p) ELSE NoKey]
          /\ expireAt' = [expireAt EXCEPT ![k] = IF ttl > 0 THEN now + ttl ELSE NoExpiry]
          /\ issued' = [issued EXCEPT ![proposal_id] =
                 [token |-> confirm_token, confirm_phrase |-> CONFIRM_PHRASE,
                  table |-> table, record_id |-> record_id, created_at |-> now]]
          /\ logs' = logs \cup
                 {create_proposal_info(proposal_id, confirm_token, table, record_id)}
    /\ created' = created + 1
    /\ UNCHANGED <<extVars, now, ttl, callVars, newly, guesses, successes, firstOutcome>>

\* create_proposal(table, record_id): uuid4 and token_urlsafe give values
\* never given before (the next unused id and token); _put writes the hash
\* and its TTL in one MULTI/EXEC pipeline.  EXPIRE with a timeout <= 0
\* deletes the key.  The store has room for the ids in DOMAIN store.
create_proposal(table, record_id) ==
    /\ _key(created + 1) \in DOMAIN store
    /\ LET proposal_id == created + 1
           confirm_token == token_urlsafe(created + 1)
           p == Proposal(proposal_id, table, record_id, _hash_token(confirm_token),
                         CONFIRM_PHRASE, now, FALSE)
           k == _key(proposal_id)
       IN /\ store' = [store EXCEPT ![k] = IF ttl > 0 THEN _put_data(p) ELSE NoKey]
          /\ expireAt' = [expireAt EXCEPT ![k] = IF ttl > 0 THEN now + ttl ELSE NoExpiry]
          /\ issued' = [issued EXCEPT ![proposal_id] =
                 [token |-> confirm_token, confirm_phrase |-> CONFIRM_PHRASE,
                  table |-> table, record_id |-> record_id, created_at |-> now]]
          /\ logs' = logs \cup
                 {create_proposal_info(proposal_id, confirm_token, table, record_id)}
    /\ created' = created + 1
    /\ UNCHANGED <<extVars, now, ttl, callVars, newly, guesses, successes, firstOutcome>>

\* faulty variant: the lookup restarts the TTL of the key it reads
validate_and_consume_get_touch(c, proposal_id, confirm_token, confirm_phrase) ==
    /\ pc[c] = "idle"
    /\ LET k == _key(proposal_id)
           data == store[k] IN
       /\ arg' = [arg EXCEPT ![c] = [proposal_id |-> proposal_id,
                                     confirm_token |-> confirm_token,
                                     confirm_phrase |-> confirm_phrase]]
       /\ first' = [first EXCEPT ![c] = FALSE]
       /\ age' = [age EXCEPT ![c] = NoAge]
       /\ inTime' = [inTime EXCEPT ![c] = WithinWindow(proposal_id)]
       /\ expireAt' = [expireAt EXCEPT ![k] = IF data = NoKey THEN @ ELSE now + ttl]
       /\ IF _get_raises(data)
          THEN /\ pc' = [pc EXCEPT ![c] = "done"]
               /\ result' = [result EXCEPT ![c] = "KeyError"]
               /\ proposal' = [proposal EXCEPT ![c] = None]
          ELSE IF _get(data) = None
          THEN /\ pc' = [pc EXCEPT ![c] = "done"]
               /\ result' = [result EXCEPT ![c] = "ProposalNotFoundError"]
               /\ proposal' = [proposal EXCEPT ![c] = None]
          ELSE /\ pc' = [pc EXCEPT ![c] = "expiry"]
               /\ result' = [result EXCEPT ![c] = "none"]
               /\ proposal' = [proposal EXCEPT ![c] = _get(data)]
    /\ UNCHANGED <<restVars, now, ttl, store, created, histVars>>

\* validate_and_consume, step 1: proposal = _get(proposal_id)
validate_and_consume_get(c, proposal_id, confirm_token, confirm_phrase) ==
    /\ pc[c] = "idle"
    /\ LET data == store[_key(proposal_id)] IN
       /\ arg' = [arg EXCEPT ![c] = [proposal_id |-> proposal_id,
                                     confirm_token |-> confirm_token,
                                     confirm_phrase |-> confirm_phrase]]
       /\ first' = [first EXCEPT ![c] = FALSE]
       /\ age' = [age EXCEPT ![c] = NoAge]
       /\ inTime' = [inTime EXCEPT ![c] = WithinWindow(proposal_id)]
       /\ IF _get_raises(data)
          THEN /\ pc' = [pc EXCEPT ![c] = "done"]
               /\ result' = [result EXCEPT ![c] = "KeyError"]
               /\ proposal' = [proposal EXCEPT ![c] = None]
          ELSE IF _get(data) = None
          THEN /\ pc' = [pc EXCEPT ![c] = "done"]
               /\ result' = [result EXCEPT ![c] = "ProposalNotFoundError"]
               /\ proposal' = [proposal EXCEPT ![c] = None]
          ELSE /\ pc' = [pc EXCEPT ![c] = "expiry"]
               /\ result' = [result EXCEPT ![c] = "none"]
               /\ proposal' = [proposal EXCEPT ![c] = _get(data)]
    /\ UNCHANGED <<restVars, now, ttl, store, expireAt, created, histVars>>

\* step 2: age = time.time() - proposal.created_at; if age > ttl
validate_and_consume_expiry(c) ==
    /\ pc[c] = "expiry"
    /\ age' = [age EXCEPT ![c] = now - proposal[c].created_at]
    /\ pc' = [pc EXCEPT ![c] = IF IsExpired(age'[c], ttl) THEN "delete" ELSE "cas"]
    /\ inTime' = [inTime EXCEPT ![c] = inTime[c] /\ WithinWindow(arg[c].proposal_id)]
    /\ UNCHANGED <<restVars, now, ttl, store, expireAt, created, arg, proposal, result,
                   first, histVars>>

\* faulty variant: the expired branch raises without deleting the key
_delete_skipped(c) ==
    /\ pc[c] = "delete"
    /\ pc' = [pc EXCEPT ![c] = "done"]
    /\ result' = [result EXCEPT ![c] = "ProposalExpiredError"]
    /\ UNCHANGED <<restVars, now, ttl, store, expireAt, created, arg, proposal, age, inTime,
                   first, histVars>>

\* step 2, expired: _delete(proposal_id); raise ProposalExpiredError
_delete(c) ==
    /\ pc[c] = "delete"
    /\ LET k == _key(arg[c].proposal_id) IN
       /\ store' = [store EXCEPT ![k] = NoKey]
       /\ expireAt' = [expireAt EXCEPT ![k] = NoExpiry]
    /\ pc' = [pc EXCEPT ![c] = "done"]
    /\ result' = [result EXCEPT ![c] = "ProposalExpiredError"]
    /\ UNCHANGED <<restVars, now, ttl, created, arg, proposal, age, inTime, first, histVars>>

\* the phrase check, then the token check, against the local proposal
CheckOutcome(p, confirm_token, confirm_phrase) ==
    IF confirm_phrase # p.confirm_phrase THEN "ConfirmPhraseMismatchError"
    ELSE IF _hash_token(confirm_token) # p.token_hash THEN "TokenMismatchError"
    ELSE "Ok"

\* faulty variant: _mark_used ignores what the script returns
_mark_used_raises_never(ret) == FALSE

\* _mark_used raises ProposalAlreadyUsedError when the script returns 1
_mark_used_raises(ret) == ret = 1

\* step 3: _mark_used(proposal_id), one EVALSHA of _CAS_SCRIPT (HSET keeps
\* the TTL of an existing key and gives none to a key it creates); then
\* steps 4-6, which read only the call's own locals: phrase check, token
\* check, return proposal.
validate_and_consume_mark_used(c) ==
    /\ pc[c] = "cas"
    /\ LET pid == arg[c].proposal_id
           k == _key(pid)
           cas == _CAS_SCRIPT(store[k])
           r == IF _mark_used_raises(cas.ret) THEN "ProposalAlreadyUsedError"
                ELSE CheckOutcome(proposal[c], arg[c].confirm_token,
                                  arg[c].confirm_phrase)
           isNew == ~_mark_used_raises(cas.ret)
           isFirst == isNew /\ newly[pid] = 0
       IN /\ store' = [store EXCEPT ![k] = cas.data]
          /\ result' = [result EXCEPT ![c] = r]
          /\ newly' = [newly EXCEPT ![pid] = IF isNew THEN Inc(@) ELSE @]
          /\ guesses' = [guesses EXCEPT ![pid] = IF isNew THEN Inc(@) ELSE @]
          /\ successes' = [successes EXCEPT ![pid] = IF r = "Ok" THEN Inc(@) ELSE @]
          /\ first' = [first EXCEPT ![c] = isFirst]
          /\ firstOutcome' = [firstOutcome EXCEPT ![pid] = IF isFirst THEN r ELSE @]
          /\ inTime' = [inTime EXCEPT ![c] = inTime[c] /\ WithinWindow(pid)]
          /\ logs' = IF r = "Ok"
                     THEN logs \cup {<<"Delete proposal confirmed: id=%s", pid>>}
                     ELSE logs
    /\ pc' = [pc EXCEPT ![c] = "done"]
    /\ UNCHANGED <<extVars, now, ttl, expireAt, created, arg, proposal, age, issued>>

\* faulty variant: a store error is not raised but the consumption step retried
Return_retry(c) ==
    /\ pc[c] = "done"
    /\ IF result[c] = "RedisError" /\ proposal[c] # None
       THEN /\ pc' = [pc EXCEPT ![c] = "cas"]
            /\ result' = [result EXCEPT ![c] = "none"]
            /\ UNCHANGED <<arg, proposal, age, inTime, first>>
       ELSE /\ pc' = [pc EXCEPT ![c] = "idle"]
            /\ arg' = [arg EXCEPT ![c] = None]
            /\ proposal' = [proposal EXCEPT ![c] = None]
            /\ result' = [result EXCEPT ![c] = "none"]
            /\ inTime' = [inTime EXCEPT ![c] = FALSE]
            /\ first' = [first EXCEPT ![c] = FALSE]
            /\ age' = [age EXCEPT ![c] = NoAge]
    /\ UNCHANGED <<restVars, now, ttl, store, expireAt, created, histVars>>

\* the call has returned or raised; the handler is free for the next request
Return(c) ==
    /\ pc[c] = "done"
    /\ pc' = [pc EXCEPT ![c] = "idle"]
    /\ arg' = [arg EXCEPT ![c] = None]
    /\ proposal' = [proposal EXCEPT ![c] = None]
    /\ result' = [result EXCEPT ![c] = "none"]
    /\ inTime' = [inTime EXCEPT ![c] = FALSE]
    /\ first' = [first EXCEPT ![c] = FALSE]
    /\ age' = [age EXCEPT ![c] = NoAge]
    /\ UNCHANGED <<restVars, now, ttl, store, expireAt, created, histVars>>

Next ==
    \/ Tick
    \/ \E k \in Keys : Evict(k)
    \/ \E t \in Targets : create_proposal(t[1], t[2])
    \/ \E c \in Callers, p \in PIDs, tok \in Tokens, ph \in Phrases :
           validate_and_consume_get(c, p, tok, ph)
    \/ \E c \in Callers : validate_and_consume_expiry(c)
    \/ \E c \in Callers : _delete(c)
    \/ \E c \in Callers : validate_and_consume_mark_used(c)
    \/ \E c \in Callers : Return(c)


Spec == Init /\ [][Next]_vars

\* ------------------------------------------------------ claim vocabulary
Done(c) == pc[c] = "done"
Pid(c) == arg[c].proposal_id
Data(p) == store[_key(p)]
\* the key holds the full record written by _put
IsStored(p) == ProposalFields \subseteq DOMAIN Data(p)
Absent(p) == Data(p) = NoKey
UsedFlag(data) == "used" \in DOMAIN data /\ data["used"] = "1"
\* the call's lookup returned a proposal
Found(c) == proposal[c] # None
\* the call got past the consumption step
Consumed(c) ==
    Done(c) /\ result[c] \in {"Ok", "ConfirmPhraseMismatchError", "TokenMismatchError"}
\* the arguments are the ones create_proposal returned for the id
CorrectToken(c) == WasCreated(Pid(c)) /\ arg[c].confirm_token = issued[Pid(c)].token
CorrectPhrase(c) ==
    WasCreated(Pid(c)) /\ arg[c].confirm_phrase = issued[Pid(c)].confirm_phrase
\* caller c takes a step of its call
Steps(c) == pc'[c] # pc[c]

\* C1: among concurrent validate_and_consume calls that each looked up the
\* same PENDING proposal (stored, used = false, expiry check passed), exactly
\* one performs the PENDING -> CONSUMED transition and every other one that
\* reaches the consumption step fails with ProposalAlreadyUsedError.
C1_ExactlyOneConsumes ==
    /\ \A p \in PIDs : newly[p] <= 1
    /\ \A c \in Callers :
          (Done(c) /\ Found(c) /\ ~proposal[c].used
             /\ result[c] # "ProposalExpiredError" /\ ~first[c])
          => result[c] = "ProposalAlreadyUsedError"

\* C2: at most one validate_and_consume call ever returns a Proposal for a
\* given proposal_id, whatever creations, evictions and deletions interleave.
C2_AtMostOneSuccess == \A p \in PIDs : successes[p] <= 1

\* what one step of the consumption primitive by caller c must do
C3_CasStep(c) ==
    LET p == Pid(c)
        k == _key(p)
    IN IF UsedFlag(store[k])
       THEN /\ store' = store
            /\ result'[c] = "ProposalAlreadyUsedError"
            /\ newly' = newly
       ELSE /\ UsedFlag(store'[k])
            /\ \A f \in DOMAIN store[k] \ {"used"} :
                   f \in DOMAIN store'[k] /\ store'[k][f] = store[k][f]
            /\ \A k2 \in Keys \ {k} : store'[k2] = store[k2]
            /\ result'[c] # "ProposalAlreadyUsedError"
            /\ newly'[p] = Inc(newly[p])

\* C3: the consumption primitive is one indivisible step: on a used flag that
\* is already true it reports 'already used' and changes nothing, otherwise it
\* sets used to true, leaves every other field alone and reports 'newly
\* consumed'; while a proposal stays stored, exactly one of the callers that
\* ran the primitive on it observed 'newly consumed' (none if none ran it).
C3_AtomicConsumption ==
    /\ [][\A c \in Callers : (pc[c] = "cas" /\ Steps(c)) => C3_CasStep(c)]_vars
    /\ [](\A p \in PIDs :
            IsStored(p) => newly[p] = (IF UsedFlag(Data(p)) THEN 1 ELSE 0))
\* two callers ran the primitive on the same stored proposal
C3_Witness ==
    \E c1, c2 \in Callers :
        /\ c1 # c2 /\ Done(c1) /\ Done(c2) /\ Pid(c1) = Pid(c2)
        /\ IsStored(Pid(c1))
        /\ first[c1] /\ result[c2] = "ProposalAlreadyUsedError"

\* C4: a first call on a fresh proposal with a wrong token and the right
\* phrase fails with TokenMismatchError; every call that begins after that,
\* with the correct token and phrase, never succeeds, and fails with
\* ProposalAlreadyUsedError (when made within the TTL window).
C4_WrongTokenBurns ==
    /\ \A c \in Callers :
          (Done(c) /\ first[c] /\ ~CorrectToken(c) /\ CorrectPhrase(c))
          => result[c] = "TokenMismatchError"
    /\ \A c \in Callers :
          (Done(c) /\ Found(c) /\ proposal[c].used
             /\ firstOutcome[Pid(c)] = "TokenMismatchError"
             /\ CorrectToken(c) /\ CorrectPhrase(c))
          => /\ result[c] # "Ok"
             /\ inTime[c] => result[c] = "ProposalAlreadyUsedError"

\* C5: at most one call per proposal_id ever reaches the phrase/token
\* comparison, and whenever a call has failed with ConfirmPhraseMismatchError
\* or TokenMismatchError the stored proposal (if still stored) has used = true.
C5_OneGuess ==
    /\ \A p \in PIDs : guesses[p] <= 1
    /\ \A c \in Callers :
          (Done(c) /\ result[c] \in {"ConfirmPhraseMismatchError", "TokenMismatchError"})
          => (Absent(Pid(c)) \/ UsedFlag(Data(Pid(c))))

\* C6: a call that begins after a call on the same proposal_id has succeeded,
\* with the same correct arguments, never succeeds and fails with
\* ProposalAlreadyUsedError (when made within the TTL window); the stored
\* proposal read back after a success has used = true.
C6_ReplayBlocked ==
    /\ \A c \in Callers :
          (Done(c) /\ Found(c) /\ proposal[c].used
             /\ firstOutcome[Pid(c)] = "Ok"
             /\ CorrectToken(c) /\ CorrectPhrase(c))
          => /\ result[c] # "Ok"
             /\ inTime[c] => result[c] = "ProposalAlreadyUsedError"
    /\ \A p \in PIDs :
          (successes[p] >= 1 /\ IsStored(p)) => _get(Data(p)).used

\* C7: create_proposal returns the phrase "CONFIRM DELETE"; a call with the
\* returned id, token and phrase whose steps all run within the TTL window
\* succeeds if it is the first to consume the proposal, returning a Proposal
\* with the table and record_id given to create_proposal; it fails with
\* ProposalAlreadyUsedError only if another call consumed the proposal first.
C7_ScenarioA ==
    /\ \A p \in PIDs : WasCreated(p) => issued[p].confirm_phrase = "CONFIRM DELETE"
    /\ \A c \in Callers :
          (Done(c) /\ CorrectToken(c) /\ CorrectPhrase(c) /\ inTime[c])
          => IF first[c]
             THEN /\ result[c] = "Ok"
                  /\ proposal[c].table = issued[Pid(c)].table
                  /\ proposal[c].record_id = issued[Pid(c)].record_id
             ELSE /\ result[c] = "ProposalAlreadyUsedError"
                  /\ newly[Pid(c)] >= 1
C7_Witness ==
    \E c \in Callers :
        /\ Done(c) /\ CorrectToken(c) /\ CorrectPhrase(c) /\ inTime[c]
        /\ first[c] /\ result[c] = "Ok"
        /\ proposal[c].table = accounts /\ proposal[c].record_id = GUID("b")

\* C8: a call whose lookup finds a stored proposal older than the TTL deletes
\* the record and fails with ProposalExpiredError, whatever token and phrase
\* it was given; when it fails the key is gone and a lookup returns absent.
C8_ExpiredIsDeleted ==
    [][\A c \in Callers :
         /\ (pc[c] = "expiry" /\ ~inTime[c] /\ Steps(c)) => pc'[c] = "delete"
         /\ (pc[c] = "delete" /\ Steps(c))
            => /\ Done(c)' /\ result'[c] = "ProposalExpiredError"
               /\ expireAt'[_key(Pid(c))] = NoExpiry
               /\ ~_get_raises(Data(Pid(c))') /\ _get(Data(Pid(c))') = None]_vars
C8_Witness ==
    \E c \in Callers :
        /\ Done(c) /\ result[c] = "ProposalExpiredError" /\ Absent(Pid(c))
        /\ ~CorrectToken(c) /\ ~CorrectPhrase(c)

\* C9: a call on a proposal_id with no record in the store fails with
\* ProposalNotFoundError at its lookup, and the store is unchanged by it.
C9_NotFoundNoWrite ==
    [][\A c \in Callers :
         /\ \A p \in PIDs :
              (pc[c] = "idle" /\ Steps(c) /\ arg'[c].proposal_id = p /\ Absent(p))
              => /\ Done(c)' /\ result'[c] = "ProposalNotFoundError"
                 /\ store' = store /\ expireAt' = expireAt
         /\ (Steps(c) /\ Done(c)' /\ result'[c] = "ProposalNotFoundError")
            => (pc[c] = "idle" /\ store' = store /\ expireAt' = expireAt)]_vars
C9_Witness ==
    \E c \in Callers :
        /\ Done(c) /\ result[c] = "ProposalNotFoundError"
        /\ WasCreated(Pid(c)) /\ Absent(Pid(c))

\* C10: once the key of a created proposal is absent from the store it stays
\* absent (no step re-creates a record under it), and no later lookup of the
\* id finds anything but an absent key.
C10_AbsentStaysAbsent ==
    /\ [][\A p \in PIDs : (WasCreated(p) /\ Absent(p)) => Absent(p)']_vars
    /\ [](\A c \in Callers : result[c] # "KeyError")

\* PENDING: the full record is stored with used = false, within the TTL
Pending(p) == IsStored(p) /\ ~UsedFlag(Data(p)) /\ WithinWindow(p)

C12_UsedOnlyRises ==
    [][\A p \in PIDs :
         /\ UsedFlag(Data(p)) => (Absent(p)' \/ UsedFlag(Data(p)'))
         /\ IsStored(p)
            => \/ Absent(p)'
               \/ /\ IsStored(p)'
                  /\ \A f \in ProposalFields \ {"used"} : Data(p)'[f] = Data(p)[f]
         /\ (IsStored(p) /\ ~UsedFlag(Data(p)) /\ UsedFlag(Data(p)'))
            => /\ \E c \in Callers : pc[c] = "cas" /\ Steps(c) /\ Pid(c) = p
               /\ newly[p] = 0 /\ newly'[p] = 1
         /\ (~IsStored(p) /\ IsStored(p)')
            => (created' = p /\ created = p - 1 /\ Data(p)'["used"] = "0")]_vars
\* a stored proposal whose used flag was raised, its other fields as created
C12_Witness ==
    \E p \in PIDs :
        /\ IsStored(p) /\ UsedFlag(Data(p)) /\ newly[p] = 1
        /\ Data(p)["table"] = issued[p].table
        /\ Data(p)["created_at"] = str(issued[p].created_at)

\* C13: every key in the proposal namespace holds one complete proposal
\* record and carries a TTL.
C13_CompleteWithTTL ==
    \A p \in PIDs :
        ~Absent(p) => (IsStored(p) /\ expireAt[_key(p)] # NoExpiry)

\* ------------------------------------------- the TTL as a configured value
\* settings.confirm_token_ttl_seconds is an unvalidated int: 0 is a value it
\* can be given
TTLs == {0, ModelTTL}

InitTTL ==
    /\ now = 0
    /\ ttl \in TTLs
    /\ store = [k \in Keys |-> NoKey]
    /\ expireAt = [k \in Keys |-> NoExpiry]
    /\ created = 0
    /\ pc = [c \in Callers |-> "idle"]
    /\ arg = [c \in Callers |-> None]
    /\ proposal = [c \in Callers |-> None]
    /\ result = [c \in Callers |-> "none"]
    /\ issued = [p \in PIDs |-> NotIssued]
    /\ newly = [p \in PIDs |-> 0]
    /\ guesses = [p \in PIDs |-> 0]
    /\ successes = [p \in PIDs |-> 0]
    /\ firstOutcome = [p \in PIDs |-> "none"]
    /\ inTime = [c \in Callers |-> FALSE]
    /\ first = [c \in Callers |-> FALSE]
    /\ age = [c \in Callers |-> NoAge]
    /\ logs = {}
    /\ InitExt

SpecTTL == InitTTL /\ [][Next]_vars

\* C14: in the state right after create_proposal returns, a read of the
\* returned proposal_id yields a stored proposal with used = false whose age
\* (now minus created_at) does not exceed the configured TTL.
C14_FreshAfterCreate ==
    [][\A p \in PIDs :
         (created = p - 1 /\ created' = p)
         => /\ ~_get_raises(Data(p)')
            /\ _get(Data(p)') # None
            /\ ~_get(Data(p)').used
            /\ now' - _get(Data(p)').created_at <= ttl']_vars

\* C15: with the TTL configured as 0, validate_and_consume with the token and
\* phrase that create_proposal returned fails with ProposalExpiredError, and
\* the proposal_id is absent from the store afterwards.
C15_ScenarioD ==
    \A c \in Callers :
        (ttl = 0 /\ Done(c) /\ CorrectToken(c) /\ CorrectPhrase(c))
        => (result[c] = "ProposalExpiredError" /\ Absent(Pid(c)))

\* --------------------------------------- store faults and dropped callers
\* A Redis command of validate_and_consume can raise a redis error instead of
\* returning.  The request may have been lost (the command never ran) or the
\* reply (the command ran: `applied`).  No except clause catches the error,
\* so it leaves validate_and_consume at once.

\* _get: hgetall raises
_get_fault(c, proposal_id, confirm_token, confirm_phrase) ==
    /\ pc[c] = "idle"
    /\ arg' = [arg EXCEPT ![c] = [proposal_id |-> proposal_id,
                                  confirm_token |-> confirm_token,
                                  confirm_phrase |-> confirm_phrase]]
    /\ pc' = [pc EXCEPT ![c] = "done"]
    /\ result' = [result EXCEPT ![c] = "RedisError"]
    /\ proposal' = [proposal EXCEPT ![c] = None]
    /\ first' = [first EXCEPT ![c] = FALSE]
    /\ age' = [age EXCEPT ![c] = NoAge]
    /\ inTime' = [inTime EXCEPT ![c] = WithinWindow(proposal_id)]
    /\ UNCHANGED <<restVars, now, ttl, store, expireAt, created, histVars>>

\* _delete: delete raises
_delete_fault(c, applied) ==
    /\ pc[c] = "delete"
    /\ LET k == _key(arg[c].proposal_id) IN
       /\ store' = [store EXCEPT ![k] = IF applied THEN NoKey ELSE @]
       /\ expireAt' = [expireAt EXCEPT ![k] = IF applied THEN NoExpiry ELSE @]
    /\ pc' = [pc EXCEPT ![c] = "done"]
    /\ result' = [result EXCEPT ![c] = "RedisError"]
    /\ UNCHANGED <<restVars, now, ttl, created, arg, proposal, age, inTime, first, histVars>>

\* _mark_used: script_load or evalsha raises
_mark_used_fault(c, applied) ==
    /\ pc[c] = "cas"
    /\ LET pid == arg[c].proposal_id
           k == _key(pid)
           cas == _CAS_SCRIPT(store[k])
           isNew == applied /\ cas.ret = 0
           isFirst == isNew /\ newly[pid] = 0
       IN /\ store' = [store EXCEPT ![k] = IF applied THEN cas.data ELSE @]
          /\ newly' = [newly EXCEPT ![pid] = IF isNew THEN Inc(@) ELSE @]
          /\ firstOutcome' = [firstOutcome EXCEPT ![pid] =
                                 IF isFirst THEN "RedisError" ELSE @]
    /\ pc' = [pc EXCEPT ![c] = "done"]
    /\ result' = [result EXCEPT ![c] = "RedisError"]
    /\ UNCHANGED <<restVars, now, ttl, expireAt, created, arg, proposal, age, inTime, first,
                   issued, guesses, successes>>

\* faulty variant: a dropped call cleans up the record it looked up
Drop_cleanup(c) ==
    /\ pc[c] \in {"expiry", "delete", "cas"}
    /\ LET k == _key(arg[c].proposal_id) IN
       /\ store' = [store EXCEPT ![k] = NoKey]
       /\ expireAt' = [expireAt EXCEPT ![k] = NoExpiry]
    /\ pc' = [pc EXCEPT ![c] = "done"]
    /\ result' = [result EXCEPT ![c] = "Dropped"]
    /\ UNCHANGED <<restVars, now, ttl, created, arg, proposal, age, inTime, first, histVars>>

\* the caller is cancelled or crashes between the lookup and the consumption
\* step: the call takes no further step, nothing it holds is written back
Drop(c) ==
    /\ pc[c] \in {"expiry", "delete", "cas"}
    /\ pc' = [pc EXCEPT ![c] = "done"]
    /\ result' = [result EXCEPT ![c] = "Dropped"]
    /\ UNCHANGED <<restVars, now, ttl, store, expireAt, created, arg, proposal, age, inTime,
                   first, histVars>>

NextFaults ==
    \/ Next
    \/ \E c \in Callers, p \in PIDs, tok \in Tokens, ph \in Phrases :
           _get_fault(c, p, tok, ph)
    \/ \E c \in Callers, applied \in BOOLEAN : _delete_fault(c, applied)
    \/ \E c \in Callers, applied \in BOOLEAN : _mark_used_fault(c, applied)
    \/ \E c \in Callers : Drop(c)

SpecFaults == Init /\ [][NextFaults]_vars

\* the call ended by raising a store error / was dropped before it ended
StoreError(c) == result[c] = "RedisError"
Dropped(c) == result[c] = "Dropped"
\* success, and the six failure kinds (a redis error is the store fault kind)
Outcomes ==
    {"Ok", "ProposalNotFoundError", "ProposalExpiredError",
     "ProposalAlreadyUsedError", "ConfirmPhraseMismatchError",
     "TokenMismatchError", "RedisError"}

\* C16: every validate_and_consume call that ends, ends with success or with
\* exactly one failure kind of the closed set NotFound, Expired, AlreadyUsed,
\* PhraseMismatch, TokenMismatch, StoreUnavailable; a transport fault ends it
\* with the store fault kind, and no store state makes it fail otherwise.
C16_ClosedErrorSet ==
    \A c \in Callers : (Done(c) /\ ~Dropped(c)) => result[c] \in Outcomes

\* C17: a store error raised in any step of validate_and_consume ends the
\* call in that step: the call returns no Proposal and reaches no comparison,
\* the store holds either what it held before the step (request lost; always
\* so for a fault at the lookup) or what the failed command alone made of it
\* (reply lost), and the call's only further step is its return to the
\* caller, with no retry and no write.
C17_StoreErrorAborts ==
    [][\A c \in Callers :
         /\ (Steps(c) /\ StoreError(c)')
            => /\ Done(c)'
               /\ successes' = successes /\ guesses' = guesses
               /\ LET k == _key(Pid(c)') IN
                  /\ \A k2 \in Keys \ {k} :
                        store'[k2] = store[k2] /\ expireAt'[k2] = expireAt[k2]
                  /\ \/ store'[k] = store[k] /\ expireAt'[k] = expireAt[k]
                     \/ /\ pc[c] = "delete"
                        /\ store'[k] = NoKey /\ expireAt'[k] = NoExpiry
                     \/ /\ pc[c] = "cas"
                        /\ store'[k] = _CAS_SCRIPT(store[k]).data
                        /\ expireAt'[k] = expireAt[k]
         /\ (Steps(c) /\ StoreError(c))
            => /\ pc'[c] = "idle"
               /\ store' = store /\ expireAt' = expireAt
               /\ histVars' = histVars]_vars
\* a store error hit the consumption step of a call on a PENDING proposal,
\* before the script ran: the proposal is still PENDING
C17_Witness ==
    \E c \in Callers :
        /\ Done(c) /\ StoreError(c) /\ Found(c)
        /\ Pending(Pid(c)) /\ newly[Pid(c)] = 0

\* C18: dropping a call between its lookup and its consumption step changes
\* nothing in the store (a PENDING proposal stays PENDING), and a call with
\* the correct token and phrase whose steps all run within the TTL still
\* succeeds when it is the first to consume the proposal.
C18_DropLeavesPending ==
    /\ [][\A c \in Callers :
            (Steps(c) /\ Dropped(c)')
            => /\ store' = store /\ expireAt' = expireAt
               /\ histVars' = histVars
               /\ \A p \in PIDs : Pending(p) => Pending(p)']_vars
    /\ [](\A c \in Callers :
            (Done(c) /\ CorrectToken(c) /\ CorrectPhrase(c) /\ inTime[c]
               /\ ~StoreError(c) /\ ~Dropped(c) /\ first[c])
            => result[c] = "Ok")
    /\ [](\A p \in PIDs : Pending(p) => newly[p] = 0)
\* one call on the proposal was dropped and the proposal is still PENDING,
\* with another call, holding the correct token and phrase, about to run its
\* consumption step
C18_Witness ==
    \E c1, c2 \in Callers :
        /\ c1 # c2 /\ Done(c1) /\ Dropped(c1) /\ Pending(Pid(c1))
        /\ pc[c2] = "cas" /\ Pid(c2) = Pid(c1) /\ inTime[c2]
        /\ CorrectToken(c2) /\ CorrectPhrase(c2)

\* C19: a read (_get) never changes the store: the record's fields, its used
\* flag and its expiry are the same after the lookup step of any call as
\* before it, and what the call holds is the record as stored.
C19_ReadDoesNotWrite ==
    [][\A c \in Callers :
         (pc[c] = "idle" /\ Steps(c) /\ ~StoreError(c)')
         => /\ store' = store /\ expireAt' = expireAt
            /\ (Found(c)' => proposal'[c] = _get(store[_key(arg'[c].proposal_id)]))]_vars
\* two reads of one stored proposal, which still has the expiry _put gave it
C19_Witness ==
    \E c1, c2 \in Callers :
        /\ c1 # c2 /\ pc[c1] = "expiry" /\ pc[c2] = "expiry"
        /\ Pid(c1) = Pid(c2) /\ proposal[c1] = proposal[c2]
        /\ IsStored(Pid(c1)) /\ _get(Data(Pid(c1))) = proposal[c1]
        /\ now > issued[Pid(c1)].created_at
        /\ expireAt[_key(Pid(c1))] = issued[Pid(c1)].created_at + ttl

\* C20: for every created proposal the stored token_hash is the SHA-256 of
\* the confirm_token that create_proposal returned and is not that token,
\* and no field under the proposal's key holds the token.
C20_TokenNotStored ==
    \A p \in PIDs :
        WasCreated(p)
        => /\ IsStored(p) => Data(p)["token_hash"] = _hash_token(issued[p].token)
           /\ \A f \in DOMAIN Data(p) :
                  ToString(Data(p)[f]) # ToString(issued[p].token)
\* a stored proposal whose plaintext token has just confirmed it
C20_Witness ==
    \E c \in Callers :
        /\ Done(c) /\ result[c] = "Ok" /\ IsStored(Pid(c))
        /\ arg[c].confirm_token = token_urlsafe(1)
        /\ Data(Pid(c))["token_hash"] = <<"sha256", token_urlsafe(1)>>

\* ------------------------------------------------- order of the checks
\* the step a call at the lookup must take: an absent key ends the call with
\* NotFound, anything else goes on to the expiry check
C29_LookupStep(c) ==
    IF store[_key(arg'[c].proposal_id)] = NoKey
    THEN Done(c)' /\ result'[c] = "ProposalNotFoundError"
    ELSE pc'[c] = "expiry"
\* at the expiry check: age > TTL leads to the Expired branch, which ends the
\* call without the consumption step; otherwise to the consumption step
C29_ExpiryStep(c) ==
    IF now - proposal[c].created_at > ttl
    THEN pc'[c] = "delete"
    ELSE pc'[c] = "cas"
C29_ExpiredStep(c) ==
    /\ Done(c)' /\ result'[c] = "ProposalExpiredError"
    /\ newly' = newly /\ guesses' = guesses
    /\ \A k \in Keys : ~UsedFlag(store[k]) => ~UsedFlag(store'[k])
\* at the consumption step: already used, else phrase, else token, else success
C29_ConsumeStep(c) ==
    /\ Done(c)'
    /\ result'[c] =
         IF UsedFlag(store[_key(Pid(c))]) THEN "ProposalAlreadyUsedError"
         ELSE IF arg[c].confirm_phrase # proposal[c].confirm_phrase
              THEN "ConfirmPhraseMismatchError"
         ELSE IF _hash_token(arg[c].confirm_token) # proposal[c].token_hash
              THEN "TokenMismatchError"
         ELSE "Ok"

\* C29: validate_and_consume checks in a fixed order and reports the first
\* failing check only: absent -> NotFound; else age > TTL -> Expired, without
\* the consumption step; else already used -> AlreadyUsed; else phrase differs
\* -> PhraseMismatch, even if the token is wrong too; else token hash differs
\* -> TokenMismatch; else success.
C29_CheckOrder ==
    [][\A c \in Callers :
         /\ (pc[c] = "idle" /\ Steps(c)) => C29_LookupStep(c)
         /\ (pc[c] = "expiry" /\ Steps(c)) => C29_ExpiryStep(c)
         /\ (pc[c] = "delete" /\ Steps(c)) => C29_ExpiredStep(c)
         /\ (pc[c] = "cas" /\ Steps(c)) => C29_ConsumeStep(c)]_vars

\* C30: validate_and_consume returns a Proposal only if, in that same call,
\* the record was present at the lookup, its age did not exceed the TTL at the
\* expiry check, the call's own consumption step found the flag unset and set
\* it, the phrase equals the stored phrase and the SHA-256 of the token equals
\* the stored token hash (stored: as read at the lookup).
C30_SuccessOnlyIfAllHeld ==
    [][\A c \in Callers :
         /\ (Steps(c) /\ result'[c] = "Ok")
            => /\ pc[c] = "cas" /\ Found(c)
               /\ ~UsedFlag(store[_key(Pid(c))])
               /\ UsedFlag(store'[_key(Pid(c))])
               /\ arg[c].confirm_phrase = proposal[c].confirm_phrase
               /\ _hash_token(arg[c].confirm_token) = proposal[c].token_hash
         /\ (Steps(c) /\ pc'[c] = "cas")
            => /\ pc[c] = "expiry" /\ Found(c)
               /\ now - proposal[c].created_at <= ttl
         /\ (Steps(c) /\ pc'[c] = "expiry")
            => /\ pc[c] = "idle"
               /\ IsStored(Pid(c)')
               /\ proposal'[c].proposal_id = Pid(c)'
               /\ proposal'[c].token_hash = Data(Pid(c)').token_hash
               /\ proposal'[c].confirm_phrase = Data(Pid(c)').confirm_phrase]_vars
\* a call returned a Proposal after another call on the same id had consumed
\* it first and failed its comparison
C30_Witness ==
    \E c \in Callers :
        /\ Done(c) /\ result[c] = "Ok" /\ ~first[c]
        /\ firstOutcome[Pid(c)] \in {"ConfirmPhraseMismatchError", "TokenMismatchError"}

\* ------------------------------------------------- repeated creation
MaxCreates == 2      \* create_proposal calls in one behaviour of SpecCreate
CreateIds == 1..MaxCreates
CreateKeys == {_key(p) : p \in CreateIds}
CreateTokens == {token_urlsafe(n) : n \in 0..MaxCreates}

\* the store with room for MaxCreates proposals
InitCreate ==
    /\ now = 0
    /\ ttl = ModelTTL
    /\ store = [k \in CreateKeys |-> NoKey]
    /\ expireAt = [k \in CreateKeys |-> NoExpiry]
    /\ created = 0
    /\ pc = [c \in Callers |-> "idle"]
    /\ arg = [c \in Callers |-> None]
    /\ proposal = [c \in Callers |-> None]
    /\ result = [c \in Callers |-> "none"]
    /\ issued = [p \in CreateIds |-> NotIssued]
    /\ newly = [p \in CreateIds |-> 0]
    /\ guesses = [p \in CreateIds |-> 0]
    /\ successes = [p \in CreateIds |-> 0]
    /\ firstOutcome = [p \in CreateIds |-> "none"]
    /\ inTime = [c \in Callers |-> FALSE]
    /\ first = [c \in Callers |-> FALSE]
    /\ age = [c \in Callers |-> NoAge]
    /\ logs = {}
    /\ InitExt

\* creations interleaved with the clock, key expiry and the confirm calls of
\* one request handler
NextCreate ==
    \/ Tick
    \/ \E k \in CreateKeys : Evict(k)
    \/ \E t \in Targets : create_proposal(t[1], t[2])
    \/ \E p \in CreateIds, tok \in CreateTokens, ph \in Phrases :
           validate_and_consume_get(1, p, tok, ph)
    \/ validate_and_consume_expiry(1)
    \/ _delete(1)
    \/ validate_and_consume_mark_used(1)
    \/ Return(1)

SpecCreate == InitCreate /\ [][NextCreate]_vars

\* what a create_proposal step must do: the id it returns was never returned
\* before and its key holds nothing, the token differs from every token
\* returned before, and no other key's record or TTL changes
C21_CreateStep ==
    \E p \in CreateIds :
        /\ issued[p] = NotIssued /\ issued'[p] # NotIssued
        /\ store[_key(p)] = NoKey
        /\ \A q \in CreateIds \ {p} :
              /\ issued'[q] = issued[q]
              /\ store'[_key(q)] = store[_key(q)]
              /\ expireAt'[_key(q)] = expireAt[_key(q)]
              /\ issued[q] # NotIssued => issued[q].token # issued'[p].token

\* C21: any two create_proposal calls, consecutive calls for the same (table,
\* record_id) included, return distinct proposal ids and distinct confirm
\* tokens, so that a create never overwrites or resets an existing record.
C21_DistinctCreates ==
    /\ [][created' # created => C21_CreateStep]_vars
    /\ [](\A p, q \in CreateIds :
            (p # q /\ issued[p] # NotIssued /\ issued[q] # NotIssued)
            => issued[p].token # issued[q].token)
\* two proposals were created for the same record: the first stands consumed,
\* the second pending
C21_Witness ==
    /\ created = 2
    /\ issued[1].table = issued[2].table /\ issued[1].record_id = issued[2].record_id
    /\ IsStored(1) /\ UsedFlag(Data(1))
    /\ IsStored(2) /\ ~UsedFlag(Data(2))

\* ------------------------------------------------------ the record tools
MaxToolCalls == 2    \* record tool calls that finish in one behaviour

Digits == {"0", "1", "2", "3", "4", "5", "6", "7", "8", "9"}
HexDigits == Digits \cup {"a", "b", "c", "d", "e", "f", "A", "B", "C", "D", "E", "F"}
WordChars ==
    Digits \cup {"_"} \cup
    {"a", "b", "c", "d", "e", "f", "g", "h", "i", "j", "k", "l", "m",
     "n", "o", "p", "q", "r", "s", "t", "u", "v", "w", "x", "y", "z",
     "A", "B", "C", "D", "E", "F", "G", "H", "I", "J", "K", "L", "M",
     "N", "O", "P", "Q", "R", "S", "T", "U", "V", "W", "X", "Y", "Z"}

\* `$` of a Python regex: the end of the string, or the place before a
\* newline that ends it
BeforeEnd(value) ==
    {value} \cup
    (IF Len(value) > 0 /\ value[Len(value)] = "\n"
     THEN {SubSeq(value, 1, Len(value) - 1)} ELSE {})
_GUID_RE(value) ==
    \E v \in BeforeEnd(value) :
        /\ Len(v) = 36
        /\ \A i \in 1..36 :
              IF i \in {9, 14, 19, 24} THEN v[i] = "-" ELSE v[i] \in HexDigits
_TABLE_NAME_RE(value) ==
    \E v \in BeforeEnd(value) :
        Len(v) >= 1 /\ \A i \in 1..Len(v) : v[i] \in WordChars
_TABLE_NAME_MAX_LENGTH == 256

\* validate_guid / validate_table_name raise ValueError
validate_guid_raises(value) == ~_GUID_RE(value)
validate_table_name_raises(value) ==
    \/ value = <<>>
    \/ Len(value) > _TABLE_NAME_MAX_LENGTH
    \/ ~_TABLE_NAME_RE(value)

\* what the record tools are called with
NotAGuid == <<"n", "o", "t", "-", "a", "-", "g", "u", "i", "d">>
BadTable == <<"b", "a", "d", " ", "t", "a", "b", "l", "e", "!">>
ToolTables == {contacts, <<>>, BadTable}
ToolRecordIds == {GUID("a"), NotAGuid}

\* a call of dataverse.create_record / update_record / delete_record, each
\* of which has the required parameter `token`: without it the call raises
\* TypeError and sends no request; with it the request is sent and succeeds
\* or fails
dataverse_outcomes(has_token) ==
    IF has_token THEN {"ok", "HTTPStatusError"} ELSE {"TypeError"}
Invocation(fn, table, record_id, has_token) ==
    [fn |-> fn, table |-> table, record_id |-> record_id, token |-> has_token,
     sent |-> has_token]

\* the reply of a record tool: success, _auth_error_message, or the text of
\* the `except Exception` branch
record_tool_reply(done, failed, out) ==
    IF out = "ok" THEN done
    ELSE IF out = "AuthenticationRequiredError" THEN "failed: not authenticated"
    ELSE failed

ToolRoom == Len(toolCalls) < MaxToolCalls

\* tool_create_record(table, data): awaits dataverse.create_record(table=,
\* data=)
tool_create_record(table) ==
    /\ ToolRoom
    /\ \E out \in dataverse_outcomes(FALSE) :
          toolCalls' = Append(toolCalls,
              [tool |-> "tool_create_record", table |-> table, record_id |-> <<>>,
               reply |-> record_tool_reply("Record created successfully",
                                           "Failed to create record", out),
               invoked |-> <<Invocation("create_record", table, <<>>, FALSE)>>,
               proposals |-> 0])
    /\ UNCHANGED <<confVars, cacheVars, auditVars, listVars>>

\* tool_update_record(table, record_id, data): awaits
\* dataverse.update_record(table=, record_id=, data=)
tool_update_record(table, record_id) ==
    /\ ToolRoom
    /\ \E out \in dataverse_outcomes(FALSE) :
          toolCalls' = Append(toolCalls,
              [tool |-> "tool_update_record", table |-> table, record_id |-> record_id,
               reply |-> record_tool_reply("updated successfully",
                                           "Failed to update record", out),
               invoked |-> <<Invocation("update_record", table, record_id, FALSE)>>,
               proposals |-> 0])
    /\ UNCHANGED <<confVars, cacheVars, auditVars, listVars>>

\* tool_delete_record(table, record_id): awaits
\* dataverse.delete_record(table=, record_id=)
tool_delete_record(table, record_id) ==
    /\ ToolRoom
    /\ \E out \in dataverse_outcomes(FALSE) :
          toolCalls' = Append(toolCalls,
              [tool |-> "tool_delete_record", table |-> table, record_id |-> record_id,
               reply |-> record_tool_reply("deleted successfully",
                                           "Failed to delete record", out),
               invoked |-> <<Invocation("delete_record", table, record_id, FALSE)>>,
               proposals |-> 0])
    /\ UNCHANGED <<confVars, cacheVars, auditVars, listVars>>

ConfirmationErrors ==
    {"ProposalNotFoundError", "ProposalExpiredError", "ProposalAlreadyUsedError",
     "ConfirmPhraseMismatchError", "TokenMismatchError"}

\* tool_confirm_delete_record(proposal_id, confirm_token, confirm_phrase),
\* after its validate_and_consume call has ended: a ConfirmationError is
\* answered with 'Confirmation failed', a Proposal with one
\* dataverse.delete_record(table=, record_id=, token=) for the proposal's
\* record; any other exception leaves the tool as it is
tool_confirm_delete_record(c) ==
    /\ pc[c] = "done"
    /\ ToolRoom
    /\ \E out \in (IF result[c] = "Ok" THEN dataverse_outcomes(TRUE) ELSE {"none"}) :
          toolCalls' = Append(toolCalls,
              [tool |-> "tool_confirm_delete_record",
               proposal_id |-> arg[c].proposal_id,
               confirm_token |-> arg[c].confirm_token,
               confirm_phrase |-> arg[c].confirm_phrase,
               outcome |-> result[c],
               reply |-> IF result[c] = "Ok"
                         THEN record_tool_reply("deleted successfully",
                                                "Failed to delete record", out)
                         ELSE IF result[c] \in ConfirmationErrors
                         THEN "Confirmation failed"
                         ELSE "error",
               invoked |-> IF result[c] = "Ok"
                           THEN <<Invocation("delete_record", proposal[c].table,
                                             proposal[c].record_id, TRUE)>>
                           ELSE <<>>,
               proposals |-> 0])
    /\ pc' = [pc EXCEPT ![c] = "idle"]
    /\ arg' = [arg EXCEPT ![c] = None]
    /\ proposal' = [proposal EXCEPT ![c] = None]
    /\ result' = [result EXCEPT ![c] = "none"]
    /\ inTime' = [inTime EXCEPT ![c] = FALSE]
    /\ first' = [first EXCEPT ![c] = FALSE]
    /\ age' = [age EXCEPT ![c] = NoAge]
    /\ UNCHANGED <<now, ttl, store, expireAt, created, histVars, logs, cacheVars,
                   auditVars, listVars>>

\* one request handler serves the record tools in turn; proposals are
\* created, the clock runs and keys expire in between
NextTools ==
    \/ Tick
    \/ \E k \in Keys : Evict(k)
    \/ \E t \in Targets : create_proposal(t[1], t[2])
    \/ \E p \in PIDs, tok \in Tokens, ph \in Phrases :
           validate_and_consume_get(1, p, tok, ph)
    \/ validate_and_consume_expiry(1)
    \/ _delete(1)
    \/ validate_and_consume_mark_used(1)
    \/ tool_confirm_delete_record(1)
    \/ \E t \in ToolTables : tool_create_record(t)
    \/ \E t \in ToolTables, r \in ToolRecordIds : tool_update_record(t, r)
    \/ \E t \in ToolTables, r \in ToolRecordIds : tool_delete_record(t, r)

SpecTools == Init /\ [][NextTools]_vars

\* ------------------------------------------------ claims on the tools
ToolCall(i) == toolCalls[i]
ToolCallIds == 1..Len(toolCalls)
IsConfirmCall(i) == ToolCall(i).tool = "tool_confirm_delete_record"
Invoked(i, fn) == \E j \in 1..Len(ToolCall(i).invoked) : ToolCall(i).invoked[j].fn = fn
ValidTarget(table, record_id) ==
    ~validate_table_name_raises(table) /\ ~validate_guid_raises(record_id)

\* C22: the propose step (tool_delete_record) never invokes
\* dataverse.delete_record: for a valid table and record_id it only creates a
\* proposal and replies with its proposalId, confirmToken and confirmPhrase.
C22_ProposeDoesNotDelete ==
    \A i \in ToolCallIds :
        ToolCall(i).tool = "tool_delete_record"
        => /\ ~Invoked(i, "delete_record")
           /\ ValidTarget(ToolCall(i).table, ToolCall(i).record_id)
              => /\ ToolCall(i).proposals = 1
                 /\ ToolCall(i).reply = "proposalId, confirmToken, confirmPhrase"

\* C23: dataverse.delete_record is invoked only by a confirm call whose
\* validate_and_consume succeeded, exactly once in that call, with the table
\* and record_id of the confirmed proposal; a confirm call that fails with
\* not-found, expired, wrong token or wrong phrase replies 'Confirmation
\* failed' and does not invoke it.
C23_DeleteOnlyOnConfirm ==
    \A i \in ToolCallIds :
        /\ Invoked(i, "delete_record")
           => /\ IsConfirmCall(i)
              /\ ToolCall(i).outcome = "Ok"
              /\ Len(ToolCall(i).invoked) = 1
              /\ ToolCall(i).invoked[1].table = issued[ToolCall(i).proposal_id].table
              /\ ToolCall(i).invoked[1].record_id
                     = issued[ToolCall(i).proposal_id].record_id
        /\ (IsConfirmCall(i) /\ ToolCall(i).outcome \in
                {"ProposalNotFoundError", "ProposalExpiredError",
                 "TokenMismatchError", "ConfirmPhraseMismatchError"})
           => /\ ToolCall(i).reply = "Confirmation failed"
              /\ ToolCall(i).invoked = <<>>

\* C24: across any sequence of confirm tool calls on one proposal
\* delete_record is executed at most once: a second confirm call with the
\* same proposal_id, token and phrase replies 'Confirmation failed' with
\* 'already been used' and does not delete again.
C24_AtMostOneDelete ==
    /\ \A p \in PIDs :
          Cardinality({i \in ToolCallIds :
                          /\ IsConfirmCall(i)
                          /\ ToolCall(i).proposal_id = p
                          /\ Invoked(i, "delete_record")}) <= 1
    /\ \A i, j \in ToolCallIds :
          (/\ i < j /\ IsConfirmCall(i) /\ IsConfirmCall(j)
           /\ ToolCall(i).outcome = "Ok"
           /\ ToolCall(j).proposal_id = ToolCall(i).proposal_id
           /\ ToolCall(j).confirm_token = ToolCall(i).confirm_token
           /\ ToolCall(j).confirm_phrase = ToolCall(i).confirm_phrase)
          => /\ ToolCall(j).reply = "Confirmation failed"
             /\ ToolCall(j).outcome = "ProposalAlreadyUsedError"
             /\ ToolCall(j).invoked = <<>>

\* C25: tool_delete_record, tool_create_record and tool_update_record called
\* with an invalid or empty table name, or with a record_id that is not a
\* well-formed GUID, reply 'Validation error', create no proposal and send no
\* request to Dataverse.
C25_ValidateFirst ==
    \A i \in ToolCallIds :
        (/\ ~IsConfirmCall(i)
         /\ \/ validate_table_name_raises(ToolCall(i).table)
            \/ /\ ToolCall(i).tool # "tool_create_record"
               /\ validate_guid_raises(ToolCall(i).record_id))
        => /\ ToolCall(i).reply = "Validation error"
           /\ ToolCall(i).proposals = 0
           /\ ToolCall(i).invoked = <<>>

\* ------------------------------------------------ logs and audit records
\* audit.log_proposal(proposal_id, impact_summary, ttl, token_fingerprint=,
\* user_id=, user_name=): the event handed to _emit
log_proposal(proposal_id, impact_summary, ttl_seconds, token_fingerprint, user_id, user_name) ==
    [event |-> "delete_proposed", proposal_id |-> proposal_id,
     impact |-> impact_summary, ttl_seconds |-> ttl_seconds,
     token_fingerprint |-> token_fingerprint, user_id |-> user_id,
     user_name |-> user_name, ts |-> now]
\* _emit(event): one JSON record on the logger "dataverse.audit"
_emit(event) == <<"dataverse.audit", event.event, event>>

\* the first 8 characters of the token hash
token_fingerprint_of(confirm_token) == <<"[:8]", _hash_token(confirm_token)>>

\* the propose step, after create_proposal has returned proposal p: it
\* notifies the audit sink with the fingerprint of the token
propose_log_proposal(p) ==
    /\ WasCreated(p)
    /\ \A e \in logs : ~(e[1] = "dataverse.audit" /\ e[3].proposal_id = p)
    /\ logs' = logs \cup
          {_emit(log_proposal(p, <<"permanently delete", issued[p].table,
                                   issued[p].record_id>>,
                              ttl, token_fingerprint_of(issued[p].token),
                              "unknown", "unknown"))}
    /\ UNCHANGED <<now, ttl, store, expireAt, created, callVars, histVars, extVars>>

NextAudit ==
    \/ Tick
    \/ \E k \in Keys : Evict(k)
    \/ \E t \in Targets : create_proposal(t[1], t[2])
    \/ \E p \in PIDs : propose_log_proposal(p)
    \/ \E c \in Callers, p \in PIDs, tok \in Tokens, ph \in Phrases :
           validate_and_consume_get(c, p, tok, ph)
    \/ \E c \in Callers : validate_and_consume_expiry(c)
    \/ \E c \in Callers : _delete(c)
    \/ \E c \in Callers : validate_and_consume_mark_used(c)
    \/ \E c \in Callers : Return(c)

SpecAudit == Init /\ [][NextAudit]_vars

\* the log entry carries the value as one of its fields
Carries(entry, value) ==
    IF entry[1] = "dataverse.audit"
    THEN \E f \in DOMAIN entry[3] : ToString(entry[3][f]) = ToString(value)
    ELSE \E i \in 2..Len(entry) : ToString(entry[i]) = ToString(value)
IsCreationLine(entry) ==
    entry[1] # "dataverse.audit" /\ entry[1] # "Delete proposal confirmed: id=%s"

MaxCacheCalls == 3   \* cache calls in one behaviour
WHOAMI_CACHE_TTL_SECONDS == 86400

\* a WhoAmI result: the identity of one user
WhoamiData == {[UserId |-> u, FullName |-> u] : u \in Users}
Raised(exception) == [raised |-> exception]

\* the positional arguments the cache functions are called with:
\* dataverse.whoami and audit.get_user_context pass the user
\* (get_whoami(user_oid), set_whoami(user_oid, data)), auth_tools passes none
\* (invalidate_whoami())
GetArgs == {<<>>} \cup {<<u>> : u \in Users}
SetArgs == {<<d>> : d \in WhoamiData} \cup {<<u, d>> : u \in Users, d \in WhoamiData}
InvalidateArgs == {<<>>} \cup {<<u>> : u \in Users}

CacheRoom == whoamiOut.n < MaxCacheCalls
CacheCall(op, args, ret) ==
    [n |-> whoamiOut.n + 1, op |-> op, args |-> args, ret |-> ret]

\* def get_whoami(): the one entry of _mem, None when there is none or when
\* it is older than the TTL; any positional argument is a TypeError
get_whoami_result(args) ==
    IF Len(args) # 0 THEN Raised("TypeError")
    ELSE IF _mem.whoami = None THEN None
    ELSE IF now - _mem.whoami.cached_at > WHOAMI_CACHE_TTL_SECONDS THEN None
    ELSE _mem.whoami.data
get_whoami(args) ==
    /\ CacheRoom
    /\ whoamiOut' = CacheCall("get_whoami", args, get_whoami_result(args))
    /\ UNCHANGED <<confVars, toolVars, auditVars, listVars, _mem, _dirty, whoamiSet,
                   SCHEMA_CACHE_TTL_SECONDS>>

\* def set_whoami(data): replaces the one entry, sets _dirty and calls
\* save_to_disk, which clears _dirty unless the write fails; a call with two
\* positional arguments is a TypeError
set_whoami(args) ==
    /\ CacheRoom
    /\ IF Len(args) # 1
       THEN /\ whoamiOut' = CacheCall("set_whoami", args, Raised("TypeError"))
            /\ UNCHANGED <<_mem, _dirty>>
       ELSE /\ whoamiOut' = CacheCall("set_whoami", args, None)
            /\ _mem' = [_mem EXCEPT !.whoami = [cached_at |-> now, data |-> args[1]]]
            /\ \E saved \in BOOLEAN : _dirty' = ~saved
    /\ whoamiSet' = IF Len(args) = 2
                    THEN [whoamiSet EXCEPT ![args[1]] = args[2]]
                    ELSE whoamiSet
    /\ UNCHANGED <<confVars, toolVars, auditVars, listVars, SCHEMA_CACHE_TTL_SECONDS>>

\* def invalidate_whoami(): clears the one entry, sets _dirty, calls
\* save_to_disk and logs; any positional argument is a TypeError
invalidate_whoami(args) ==
    /\ CacheRoom
    /\ IF Len(args) # 0
       THEN /\ whoamiOut' = CacheCall("invalidate_whoami", args, Raised("TypeError"))
            /\ UNCHANGED <<_mem, _dirty, logs>>
       ELSE /\ whoamiOut' = CacheCall("invalidate_whoami", args, None)
            /\ _mem' = [_mem EXCEPT !.whoami = None]
            /\ \E saved \in BOOLEAN : _dirty' = ~saved
            /\ logs' = logs \cup {<<"WhoAmI cache invalidated">>}
    /\ whoamiSet' = IF Len(args) = 1
                    THEN [whoamiSet EXCEPT ![args[1]] = None]
                    ELSE [u \in Users |-> None]
    /\ UNCHANGED <<storeVars, toolVars, auditVars, listVars, SCHEMA_CACHE_TTL_SECONDS>>

NextCache ==
    \/ Tick
    \/ \E args \in GetArgs : get_whoami(args)
    \/ \E args \in SetArgs : set_whoami(args)
    \/ \E args \in InvalidateArgs : invalidate_whoami(args)

SpecCache == Init /\ [][NextCache]_vars

\* C27: the WhoAmI cache is keyed per user: get_whoami(u) returns what the
\* last set_whoami(u, .) stored for u, and None when nothing was stored for u
\* or u's entry was removed by invalidate_whoami(u) or by invalidate_whoami();
\* set and invalidate calls that name a user succeed; one user's identity is
\* never returned for another user.
C27_PerUserCache ==
    [][whoamiOut'.n # whoamiOut.n
       => /\ (whoamiOut'.op = "get_whoami" /\ Len(whoamiOut'.args) = 1)
             => whoamiOut'.ret = whoamiSet[whoamiOut'.args[1]]
          /\ (whoamiOut'.op = "set_whoami" /\ Len(whoamiOut'.args) = 2)
             => whoamiOut'.ret = None
          /\ (whoamiOut'.op = "invalidate_whoami")
             => whoamiOut'.ret = None]_vars

\* -------------------------------------------------- the audit decorator
MaxInvocations == 2  \* invocations of a wrapped tool in one behaviour

\* the tokens a wrapper is called with: none (local mode), a JWT with an oid
\* claim, a JWT without one, a string that is no JWT
OboTokens ==
    {None, [claims |-> "none"], [malformed |-> TRUE]} \cup {[oid |-> u] : u \in Users}
\* get_user_oid(obo_token): None without a token, else the oid claim of the
\* token; None as well when the token cannot be decoded (except Exception)
\* or has no oid claim
get_user_oid(obo_token) ==
    IF obo_token = None THEN None
    ELSE IF "oid" \in DOMAIN obo_token THEN obo_token.oid
    ELSE None

\* the exceptions that are no Exception (BaseException only)
BaseExceptions == {"CancelledError", "KeyboardInterrupt", "SystemExit", "GeneratorExit"}
IsException(exception) == exception \notin BaseExceptions

\* the try block of get_user_context up to the cache read
get_user_context_whoami(obo_token) == get_whoami_result(<<get_user_oid(obo_token)>>)

\* faulty variant: get_user_context without its except clause
get_user_context_raises_any(obo_token) ==
    "raised" \in DOMAIN get_user_context_whoami(obo_token)

\* `except Exception: pass`: what the try block raises leaves
\* get_user_context only if it is no Exception
get_user_context_raises(obo_token) ==
    LET whoami == get_user_context_whoami(obo_token) IN
    "raised" \in DOMAIN whoami /\ ~IsException(whoami.raised)

\* get_user_context(obo_token): (UserId, FullName) of the cached WhoAmI of
\* the user, ("unknown", "unknown") when there is none or the lookup raises
get_user_context(obo_token) ==
    LET whoami == get_user_context_whoami(obo_token) IN
    IF whoami \in WhoamiData
    THEN <<whoami.UserId, whoami.FullName>>
    ELSE <<"unknown", "unknown">>

\* log_tool_call(tool_name, category, status, user_id=, user_name=): the
\* event handed to _emit
log_tool_call(tool_name, category, status, user_id, user_name) ==
    [event |-> "tool_call", tool |-> tool_name, category |-> category,
     status |-> status, ts |-> now, user_id |-> user_id, user_name |-> user_name]

\* how the wrapped coroutine can end: it returns, it raises an Exception, or
\* it raises a BaseException that is not an Exception (asyncio.CancelledError
\* when the request is cancelled, KeyboardInterrupt, SystemExit)
FnOutcomes ==
    {[kind |-> "return", value |-> "result", is_exception |-> FALSE],
     [kind |-> "raise", value |-> "RuntimeError", is_exception |-> TRUE],
     [kind |-> "raise", value |-> "CancelledError", is_exception |-> FALSE]}

\* the wrapped coroutine was never awaited
NotRun == [kind |-> "not run", value |-> "", is_exception |-> FALSE]

\* wrapper(*args, **kwargs) up to `await fn(*args, **kwargs)`; an exception
\* that leaves get_user_context leaves the wrapper before fn is awaited
wrapper_call(tool_name, category, obo_token) ==
    /\ wrapper = None
    /\ Len(delivered) < MaxInvocations
    /\ IF get_user_context_raises(obo_token)
       THEN /\ delivered' = Append(delivered,
                   [tool |-> tool_name, fn |-> NotRun, kind |-> "raise",
                    value |-> get_user_context_whoami(obo_token).raised])
            /\ UNCHANGED wrapper
       ELSE /\ LET user == get_user_context(obo_token) IN
               wrapper' = [tool_name |-> tool_name, category |-> category,
                           user_id |-> user[1], user_name |-> user[2]]
            /\ UNCHANGED delivered
    /\ UNCHANGED <<confVars, toolVars, cacheVars, listVars, audit_records>>

\* the wrapped function ends: `ok` is logged and the result returned, or
\* `except Exception` logs `error` and re-raises; an exception that is not an
\* Exception passes through the wrapper
wrapper_finish(outcome) ==
    /\ wrapper # None
    /\ audit_records' =
          IF outcome.kind = "return"
          THEN Append(audit_records,
                      log_tool_call(wrapper.tool_name, wrapper.category, "ok",
                                    wrapper.user_id, wrapper.user_name))
          ELSE IF outcome.is_exception
          THEN Append(audit_records,
                      log_tool_call(wrapper.tool_name, wrapper.category, "error",
                                    wrapper.user_id, wrapper.user_name))
          ELSE audit_records
    /\ delivered' = Append(delivered,
          [tool |-> wrapper.tool_name, fn |-> outcome,
           kind |-> outcome.kind, value |-> outcome.value])
    /\ wrapper' = None
    /\ UNCHANGED <<confVars, toolVars, cacheVars, listVars>>

WrappedTools == {<<"TestTool", "READ">>, <<"FailTool", "CREATE">>}

NextWrapper ==
    \/ Tick
    \/ \E t \in WrappedTools, obo \in OboTokens : wrapper_call(t[1], t[2], obo)
    \/ \E outcome \in FnOutcomes : wrapper_finish(outcome)

SpecWrapper == Init /\ [][NextWrapper]_vars

\* C28: a tool wrapped by audited_tool emits exactly one tool_call record per
\* invocation, after the wrapped function has finished: with status 'ok' if
\* and only if the function returned, the wrapper returning the same result;
\* with status 'error' if and only if it raised, the same exception being
\* raised to the caller.
C28_OneRecordPerInvocation ==
    /\ Len(audit_records) = Len(delivered)
    /\ \A i \in 1..Len(delivered) :
          /\ audit_records[i].event = "tool_call"
          /\ audit_records[i].tool = delivered[i].tool
          /\ audit_records[i].status = "ok" <=> delivered[i].fn.kind = "return"
          /\ audit_records[i].status = "error" <=> delivered[i].fn.kind = "raise"
          /\ delivered[i].kind = delivered[i].fn.kind
          /\ delivered[i].value = delivered[i].fn.value

\* ------------------------------------------------ the defensive expiry check
\* C31: the expiry check is strict.  A call whose check computed an age of at
\* most the configured TTL, the TTL itself included, goes on to the
\* consumption step and never ends with ProposalExpiredError; a call whose
\* check computed an age above the TTL goes to the deletion and ends with
\* ProposalExpiredError.
C31_StrictExpiry ==
    \A c \in Callers :
        age[c] # NoAge =>
            /\ age[c] <= ttl => /\ pc[c] \in {"cas", "done"}
                                /\ result[c] # "ProposalExpiredError"
            /\ age[c] > ttl => /\ pc[c] \in {"delete", "done"}
                               /\ Done(c) => result[c] = "ProposalExpiredError"

\* a call whose check found the age equal to the TTL stands before the
\* consumption step
C31_Witness ==
    \E c \in Callers : ttl > 0 /\ age[c] = ttl /\ pc[c] = "cas"

\* --------------------------------------------------- the returned Proposal
\* the call returns its Proposal in this step
C32_ReturnStep(c) == result[c] # "Ok" /\ result'[c] = "Ok"

\* C32: when validate_and_consume returns a Proposal, the value is the
\* snapshot read at the lookup: its table, record_id, token_hash,
\* confirm_phrase and created_at equal those of the record stored at that
\* moment, its used field is false, and the stored record's used field is true.
C32_ReturnsSnapshot ==
    [][\A c \in Callers :
         C32_ReturnStep(c)
         => LET ret == proposal'[c]
                data == store'[_key(arg'[c].proposal_id)] IN
            /\ ~ret.used
            /\ UsedFlag(data)
            /\ ~_get_raises(data)
            /\ ret.table = _get(data).table
            /\ ret.record_id = _get(data).record_id
            /\ ret.token_hash = _get(data).token_hash
            /\ ret.confirm_phrase = _get(data).confirm_phrase
            /\ ret.created_at = _get(data).created_at]_vars

\* ------------------------------------------- the schema and tables caches
MaxSchemaCalls == 5  \* cache calls in one behaviour of SpecSchema

SchemaTables == {"contact", "account"}
\* a cleaned entity dict, the text of the table list
SchemaData == {[LogicalName |-> t] : t \in SchemaTables}
TablesData == {[text |-> "LogicalName | DisplayName | EntitySetName"]}

\* the positional arguments of invalidate_schema: none (table_name = None),
\* the empty string, a table name
InvalidateSchemaArgs == {<<>>, <<"">>} \cup {<<t>> : t \in SchemaTables}
\* `if table_name:`
IsNamed(args) == Len(args) = 1 /\ args[1] # ""

SchemaRoom == whoamiOut.n < MaxSchemaCalls

\* dict operations on _mem["schema"]
Del(schema, table_name) == [t \in DOMAIN schema \ {table_name} |-> schema[t]]
Put(schema, table_name, entry) ==
    [t \in DOMAIN schema \cup {table_name} |->
        IF t = table_name THEN entry ELSE schema[t]]

\* def get_schema(table_name): None when caching is disabled, when the table
\* is not cached or when its entry is older than the TTL
get_schema_result(table_name) ==
    IF SCHEMA_CACHE_TTL_SECONDS = 0 THEN None
    ELSE IF table_name \notin DOMAIN _mem.schema THEN None
    ELSE IF now - _mem.schema[table_name].cached_at > SCHEMA_CACHE_TTL_SECONDS THEN None
    ELSE _mem.schema[table_name].data
get_schema(table_name) ==
    /\ SchemaRoom
    /\ whoamiOut' = CacheCall("get_schema", <<table_name>>, get_schema_result(table_name))
    /\ UNCHANGED <<confVars, toolVars, auditVars, listVars, _mem, _dirty, whoamiSet,
                   SCHEMA_CACHE_TTL_SECONDS>>

\* def set_schema(table_name, data)
set_schema(table_name, data) ==
    /\ SchemaRoom
    /\ whoamiOut' = CacheCall("set_schema", <<table_name, data>>, None)
    /\ _mem' = [_mem EXCEPT !.schema =
                   Put(@, table_name, [cached_at |-> now, data |-> data])]
    /\ \E saved \in BOOLEAN : _dirty' = ~saved
    /\ UNCHANGED <<confVars, toolVars, auditVars, listVars, whoamiSet, SCHEMA_CACHE_TTL_SECONDS>>

\* faulty variant: a named table's invalidation clears the whole schema cache
invalidate_schema_all(args) ==
    /\ SchemaRoom
    /\ whoamiOut' = CacheCall("invalidate_schema", args, None)
    /\ IF _mem.schema # NoSchema
       THEN /\ _mem' = [_mem EXCEPT !.schema = NoSchema]
            /\ \E saved \in BOOLEAN : _dirty' = ~saved
            /\ logs' = logs \cup {<<"Entire schema cache invalidated">>}
       ELSE UNCHANGED <<_mem, _dirty, logs>>
    /\ UNCHANGED <<storeVars, toolVars, auditVars, listVars, whoamiSet, SCHEMA_CACHE_TTL_SECONDS>>

\* def invalidate_schema(table_name=None)
invalidate_schema(args) ==
    /\ SchemaRoom
    /\ whoamiOut' = CacheCall("invalidate_schema", args, None)
    /\ IF IsNamed(args)
       THEN IF args[1] \in DOMAIN _mem.schema
            THEN /\ _mem' = [_mem EXCEPT !.schema = Del(@, args[1])]
                 /\ \E saved \in BOOLEAN : _dirty' = ~saved
                 /\ logs' = logs \cup {<<"Schema cache invalidated for '%s'", args[1]>>}
            ELSE UNCHANGED <<_mem, _dirty, logs>>
       ELSE IF _mem.schema # NoSchema
            THEN /\ _mem' = [_mem EXCEPT !.schema = NoSchema]
                 /\ \E saved \in BOOLEAN : _dirty' = ~saved
                 /\ logs' = logs \cup {<<"Entire schema cache invalidated">>}
            ELSE UNCHANGED <<_mem, _dirty, logs>>
    /\ UNCHANGED <<storeVars, toolVars, auditVars, listVars, whoamiSet, SCHEMA_CACHE_TTL_SECONDS>>

\* def set_tables(data)
set_tables(data) ==
    /\ SchemaRoom
    /\ whoamiOut' = CacheCall("set_tables", <<data>>, None)
    /\ _mem' = [_mem EXCEPT !.tables = [cached_at |-> now, data |-> data]]
    /\ \E saved \in BOOLEAN : _dirty' = ~saved
    /\ UNCHANGED <<confVars, toolVars, auditVars, listVars, whoamiSet, SCHEMA_CACHE_TTL_SECONDS>>

\* SCHEMA_CACHE_TTL_SECONDS is a module constant meant to be edited: 0
\* disables the schema cache
SchemaTTLs == {0, SCHEMA_CACHE_TTL_DEFAULT}

InitSchema ==
    /\ now = 0
    /\ ttl = ModelTTL
    /\ store = [k \in Keys |-> NoKey]
    /\ expireAt = [k \in Keys |-> NoExpiry]
    /\ created = 0
    /\ pc = [c \in Callers |-> "idle"]
    /\ arg = [c \in Callers |-> None]
    /\ proposal = [c \in Callers |-> None]
    /\ age = [c \in Callers |-> NoAge]
    /\ result = [c \in Callers |-> "none"]
    /\ issued = [p \in PIDs |-> NotIssued]
    /\ newly = [p \in PIDs |-> 0]
    /\ guesses = [p \in PIDs |-> 0]
    /\ successes = [p \in PIDs |-> 0]
    /\ firstOutcome = [p \in PIDs |-> "none"]
    /\ inTime = [c \in Callers |-> FALSE]
    /\ first = [c \in Callers |-> FALSE]
    /\ logs = {}
    /\ toolCalls = <<>>
    /\ _mem = [whoami |-> None, schema |-> NoSchema, tables |-> None]
    /\ _dirty = FALSE
    /\ SCHEMA_CACHE_TTL_SECONDS \in SchemaTTLs
    /\ whoamiOut = [n |-> 0, op |-> "none", args |-> <<>>, ret |-> None]
    /\ whoamiSet = [u \in Users |-> None]
    /\ wrapper = None
    /\ audit_records = <<>>
    /\ delivered = <<>>
    /\ listing = NotListing

NextSchema ==
    \/ Tick
    \/ \E d \in WhoamiData : set_whoami(<<d>>)
    \/ \E d \in TablesData : set_tables(d)
    \/ \E t \in SchemaTables, d \in SchemaData : set_schema(t, d)
    \/ \E t \in SchemaTables : get_schema(t)
    \/ \E args \in InvalidateSchemaArgs : invalidate_schema(args)

SpecSchema == InitSchema /\ [][NextSchema]_vars

\* a cache call returns in this step
CacheCallStep == whoamiOut'.n # whoamiOut.n

\* C33: invalidate_schema(t) for a named table t removes t's cached schema
\* and leaves every other table's cached schema, the WhoAmI entry and the
\* tables-list entry as they were; invalidate_schema() without a name removes
\* every schema entry; and with SCHEMA_CACHE_TTL_SECONDS = 0 get_schema
\* returns None for every table, also right after set_schema.
C33_InvalidateSchemaFrame ==
    [][CacheCallStep =>
         /\ (whoamiOut'.op = "invalidate_schema" /\ IsNamed(whoamiOut'.args))
            => /\ DOMAIN _mem'.schema = DOMAIN _mem.schema \ {whoamiOut'.args[1]}
               /\ \A t \in DOMAIN _mem'.schema : _mem'.schema[t] = _mem.schema[t]
               /\ _mem'.whoami = _mem.whoami
               /\ _mem'.tables = _mem.tables
         /\ (whoamiOut'.op = "invalidate_schema" /\ Len(whoamiOut'.args) = 0)
            => /\ DOMAIN _mem'.schema = {}
               /\ _mem'.whoami = _mem.whoami
               /\ _mem'.tables = _mem.tables
         /\ (whoamiOut'.op = "get_schema" /\ SCHEMA_CACHE_TTL_SECONDS = 0)
            => whoamiOut'.ret = None]_vars

\* the schema of "contact" was cached and has been removed by the last call,
\* with the schema of "account", the WhoAmI entry and the tables list cached
C33_Witness ==
    /\ whoamiOut.op = "invalidate_schema"
    /\ whoamiOut.args = <<"contact">>
    /\ <<"Schema cache invalidated for '%s'", "contact">> \in logs
    /\ DOMAIN _mem.schema = {"account"}
    /\ _mem.whoami # None
    /\ _mem.tables # None

\* ------------------------------------------------- dataverse.list_records
MAX_PAGES == 20
MaxShortPages == 1   \* responses without a "value" key in one call

\* strings are sequences of parts; settings.api_base is one part
api_base == "https://org.crm.dynamics.com/api/data/v9.2"
\* str.replace(old, ""): every occurrence of the part is removed
replace(string, old) == SelectSeq(string, LAMBDA part : part # old)
\* dict.get(key, default)
dict_get(dict, key, default) == IF key \in DOMAIN dict THEN dict[key] ELSE default

ListTables == {"contacts"}
\* the rows of the n-th page fetched
Rows(n) == <<[page |-> n, row |-> 1], [page |-> n, row |-> 2]>>
\* what a response can carry as "@odata.nextLink": an empty string, the API
\* base alone, a link under the API base, a link to another host
NextLinks ==
    {<<>>, <<api_base>>, <<api_base, "/", "contacts", "?$skiptoken">>,
     <<"https://elsewhere.example", "/", "contacts">>}
\* the JSON objects a response can carry: with or without "value", with or
\* without "@odata.nextLink"
Results(n, short) ==
    {[k \in {"value"} |-> Rows(n)]}
    \cup {[k \in {"value", "@odata.nextLink"} |->
              IF k = "value" THEN Rows(n) ELSE l] : l \in NextLinks}
    \cup (IF short THEN {[k \in {"@odata.nextLink"} |-> l] : l \in NextLinks}
          ELSE {})
ShortPages(fetched) == Cardinality({i \in DOMAIN fetched : fetched[i] = <<>>})

\* faulty variant: the loop follows next links without counting pages
while_unbounded(path, pages) == path # <<>>

\* `while path and pages < MAX_PAGES`
while(path, pages) == path # <<>> /\ pages < MAX_PAGES

\* list_records(table, token, ..., fetch_all_pages) up to its loop
list_records(table, fetch_all_pages) ==
    /\ listing.pc = "idle"
    /\ LET path == <<"/", table>> IN
       listing' = [pc |-> IF while(path, 0) THEN "loop" ELSE "returned",
                   fetch_all_pages |-> fetch_all_pages, path |-> path, pages |-> 0,
                   all_records |-> <<>>, requests |-> 0, fetched |-> <<>>]
    /\ UNCHANGED <<confVars, toolVars, cacheVars, auditVars>>

\* one pass of the loop body: the request raises (an HTTP error status, a
\* network failure, a body that is no JSON object), or its result is added
\* and the next link decides whether the loop goes on
list_records_page ==
    /\ listing.pc = "loop"
    /\ \/ listing' = [listing EXCEPT !.pc = "raised", !.requests = @ + 1]
       \/ \E json \in Results(listing.pages + 1,
                                ShortPages(listing.fetched) < MaxShortPages) :
            LET records == dict_get(json, "value", <<>>)
                pages == listing.pages + 1
                next_link == dict_get(json, "@odata.nextLink", <<>>)
                follow == next_link # <<>> /\ listing.fetch_all_pages
                path == IF follow THEN replace(next_link, api_base) ELSE listing.path
            IN listing' = [listing EXCEPT
                   !.requests = @ + 1,
                   !.fetched = Append(@, records),
                   !.all_records = @ \o records,
                   !.pages = pages,
                   !.path = path,
                   !.pc = IF follow /\ while(path, pages) THEN "loop" ELSE "returned"]
    /\ UNCHANGED <<confVars, toolVars, cacheVars, auditVars>>

NextList ==
    \/ \E t \in ListTables, f \in BOOLEAN : list_records(t, f)
    \/ list_records_page

\* a request ends within the client's timeout, so a call in its loop takes
\* its next pass
SpecList == Init /\ [][NextList]_vars /\ WF_vars(list_records_page)

RECURSIVE Flatten(_)
Flatten(lists) == IF lists = <<>> THEN <<>> ELSE Head(lists) \o Flatten(Tail(lists))

C34_Running == listing.pc = "loop"
C34_Ended == listing.pc \in {"returned", "raised"}
C34_Bounded ==
    /\ listing.requests <= MAX_PAGES
    /\ (C34_Ended /\ ~listing.fetch_all_pages) => listing.requests = 1
    /\ listing.pc = "returned"
       => /\ Len(listing.fetched) = listing.requests
          /\ listing.all_records = Flatten(listing.fetched)

\* C34: list_records ends after at most MAX_PAGES requests whatever next
\* links the responses carry, makes exactly one request when fetch_all_pages
\* is false, and returns the 'value' lists of the pages it fetched, joined in
\* the order of the requests.
C34_ListRecordsTerminates ==
    /\ []C34_Bounded
    /\ C34_Running ~> C34_Ended

\* a call that followed next links for MAX_PAGES requests has returned the
\* rows of all of them
C34_Witness ==
    /\ listing.pc = "returned"
    /\ listing.fetch_all_pages
    /\ listing.requests = MAX_PAGES
    /\ Len(listing.all_records) >= 2 * (MAX_PAGES - MaxShortPages)

\* --------------------------------------- the user context of audited tools
\* wrapped tools are invoked while the cache is written and invalidated
NextContext ==
    \/ \E args \in SetArgs : set_whoami(args)
    \/ \E args \in InvalidateArgs : invalidate_whoami(args)
    \/ \E t \in WrappedTools, obo \in OboTokens : wrapper_call(t[1], t[2], obo)
    \/ \E outcome \in FnOutcomes : wrapper_finish(outcome)

SpecContext == Init /\ [][NextContext]_vars

\* nothing tells who the bearer of the token is: the token names no user, or
\* no identity was stored for the user it names
Undetermined(obo_token) ==
    \/ "oid" \notin DOMAIN obo_token
    \/ whoamiSet[obo_token.oid] = None

\* C35: get_user_context never raises: for every token, and whatever fails
\* while the user is resolved or the cache is read, it returns a pair, the
\* pair ("unknown", "unknown") whenever the identity cannot be determined;
\* so every invocation of an audited tool reaches the wrapped function.
C35_ContextNeverRaises ==
    /\ \A obo \in OboTokens :
          /\ ~get_user_context_raises(obo)
          /\ Len(get_user_context(obo)) = 2
          /\ Undetermined(obo) => get_user_context(obo) = <<"unknown", "unknown">>
    /\ \A i \in 1..Len(delivered) : delivered[i].fn # NotRun
    /\ wrapper # None => <<wrapper.user_id, wrapper.user_name>> \in
                            {get_user_context(obo) : obo \in OboTokens}

\* the cache read of get_user_context raises for a user whose identity is
\* unknown, and the wrapped tool has run and returned all the same
C35_Witness ==
    /\ Undetermined([oid |-> "alice"])
    /\ "raised" \in DOMAIN get_user_context_whoami([oid |-> "alice"])
    /\ \E i \in 1..Len(delivered) :
          /\ delivered[i].fn.kind = "return"
          /\ audit_records[i].user_id = "unknown"

====
